---------------------------- MODULE Spec2Model ----------------------------
(***************************************************************************)
(* A model of HairqareTimer (src/hairqare-timer.js): configuration merge,  *)
(* country resolution, the promo-data cache, CSV parsing, promo selection  *)
(* and the countdown timer with its delayed restart.                       *)
(*                                                                         *)
(* JavaScript values are tagged records (k is the type tag).  JavaScript   *)
(* strings are sequences of one-character strings, so that the code's      *)
(* character-level processing (CSV scan, regular expression, padStart) is  *)
(* computed rather than assumed.  Times are in milliseconds.               *)
(* The styles branch of the configuration (DOM presentation) is left out.  *)
(***************************************************************************)
EXTENDS Integers, Sequences, FiniteSets, TLC

VARIABLES
  config,        \* HairqareTimer.config
  minutes,       \* state.minutes
  seconds,       \* state.seconds
  countryCode,   \* state.countryCode
  promoText,     \* state.promoText
  timerInterval, \* state.timerInterval: the handle setInterval returned, 0 for null
  isInitialized, \* state.isInitialized
  promoData,     \* cache.promoData
  lastFetched,   \* cache.lastFetched, 0 for null
  now,           \* Date.now()
  store,         \* sessionStorage: a sequence of [key, value] entries, in key(i) order
  storeThrows,   \* whether touching sessionStorage raises (storage denied)
  href,          \* window.location.href
  bodyReady,     \* whether document.body exists
  display,       \* textContent of the timer element
  procs,         \* the promise chains started so far (init pipelines, getData calls)
  intervals,     \* the browser's active setInterval timers
  timeouts,      \* the browser's pending setTimeout timers
  nextId,        \* the browser's next timer handle
  calls,         \* per entry point, how many calls the host has made
  lastCall,      \* what the most recent host call or callback did (observation)
  expiredFor,    \* observation: the time since the running countdown expired (the
                 \* first handleTimerExpiration since the last reset), -1 while it
                 \* has not
  sinceTick,     \* observation: the time since the last decrement, -1 before the
                 \* first, counted up to one tick period
  heap,          \* the objects and arrays a direct call works on, by reference:
                 \* heap[a] is the object at address a
  args,          \* the arguments of the most recent direct call of a function
  returned       \* the value that call returned

vars == <<config, minutes, seconds, countryCode, promoText, timerInterval,
          isInitialized, promoData, lastFetched, now, store, storeThrows, href,
          bodyReady, display, procs, intervals, timeouts, nextId, calls, lastCall,
          expiredFor, sinceTick, heap, args, returned>>

\* what only the direct calls of mergeConfig, parseCSV and getPromoText touch
directVars == <<heap, args, returned>>

-----------------------------------------------------------------------------
(* JavaScript values *)

Null == [k |-> "null"]
Undefined == [k |-> "undefined"]
Num(n) == [k |-> "num", n |-> n]
\* the number n / q, for a setting that is not a whole number
Ratio(n, q) == [k |-> "num", n |-> n, q |-> q]
Str(s) == [k |-> "str", s |-> s]
Arr(a) == [k |-> "arr", a |-> a]
Obj(f) == [k |-> "obj", f |-> f]

\* typeof v === 'object' && v !== null
IsComposite(v) == v.k \in {"obj", "arr"}

\* JavaScript truthiness of a value
Truthy(v) ==
  CASE v.k = "null" -> FALSE
    [] v.k = "undefined" -> FALSE
    [] v.k = "num" -> v.n # 0
    [] v.k = "str" -> Len(v.s) > 0
    [] OTHER -> TRUE

\* The property name of array index i (0-based), as for..in and spread see it.
IndexKey(i) == <<"0", "1", "2", "3">>[i + 1]

\* The own enumerable properties of a composite value: an object's own keys,
\* an array's indices.
Props(v) ==
  IF v.k = "obj" THEN v.f
  ELSE [key \in {IndexKey(i - 1) : i \in 1..Len(v.a)} |->
          v.a[CHOOSE i \in 1..Len(v.a) : IndexKey(i - 1) = key]]

\* v[key]
Get(v, key) ==
  IF IsComposite(v) /\ key \in DOMAIN Props(v) THEN Props(v)[key] ELSE Undefined

-----------------------------------------------------------------------------
(* Strings: sequences of one-character strings *)

\* s.substring(i - 1, i - 1 + n), 1-based here
Sub(s, i, n) == [j \in 1..n |-> s[i + j - 1]]

\* whether sub occurs in s at (1-based) position i
OccursAt(s, sub, i) ==
  /\ i >= 1
  /\ i + Len(sub) - 1 <= Len(s)
  /\ \A j \in 1..Len(sub) : s[i + j - 1] = sub[j]

\* String.prototype.includes
Includes(s, sub) == \E i \in 1..(Len(s) + 1) : OccursAt(s, sub, i)

\* the characters String.prototype.trim and the regular expression's \s remove
\* (of those that occur in the modelled inputs)
WhiteSpace == {" ", "\t", "\r", "\n"}

RECURSIVE TrimLeft(_)
TrimLeft(s) == IF s # <<>> /\ Head(s) \in WhiteSpace THEN TrimLeft(Tail(s)) ELSE s

RECURSIVE TrimRight(_)
TrimRight(s) ==
  IF s # <<>> /\ s[Len(s)] \in WhiteSpace THEN TrimRight(Sub(s, 1, Len(s) - 1)) ELSE s

\* String.prototype.trim
Trim(s) == TrimRight(TrimLeft(s))

-----------------------------------------------------------------------------
(* Configuration *)

DefaultText == <<"S", "e", "l", "f", "-", "c", "a", "r", "e", " ", "S", "p", "e", "c", "i", "a", "l">>

\* the configuration defaults
DefaultConfig ==
  Obj([key \in {"timerSettings", "defaultText", "urlPatterns", "dataSource"} |->
    CASE key = "timerSettings" ->
           Obj([t \in {"initialMinutes", "initialSeconds", "restartAfterMinutes"} |->
             CASE t = "initialMinutes" -> Num(28)
               [] t = "initialSeconds" -> Num(0)
               [] OTHER -> Num(1)])
      [] key = "defaultText" -> Str(DefaultText)
      [] key = "urlPatterns" -> Arr(<<>>)
      [] OTHER ->
           Obj([t \in {"type", "url"} |->
             IF t = "type" THEN Str(<<"c", "s", "v">>) ELSE Str(<<>>)])])

RECURSIVE mergeConfig(_, _)
\* mergeConfig: a spread copy of defaultConfig, then every own key of userConfig
\* merged in (recursively when both sides are non-null objects, arrays included)
mergeConfig(defaultConfig, userConfig) ==
  LET result == Props(defaultConfig)
      over == Props(userConfig)
  IN Obj([key \in DOMAIN result \cup DOMAIN over |->
            IF key \in DOMAIN over
            THEN IF /\ IsComposite(over[key])
                    /\ key \in DOMAIN result
                    /\ IsComposite(result[key])
                 THEN mergeConfig(result[key], over[key])
                 ELSE over[key]
            ELSE result[key]])

\* mergeConfig on objects held by reference.  A cell of the heap is an object
\* or an array with its own properties; a property holds a scalar or the
\* reference of another cell.
Ref(a) == [k |-> "ref", a |-> a]

\* typeof slot === 'object' && slot !== null, for the content of a property
IsRef(slot) == slot.k = "ref"

RECURSIVE KeySeq(_)
\* the keys of a set in an order of enumeration (the order changes the
\* addresses of what a call allocates, not the trees)
KeySeq(keys) ==
  IF keys = {} THEN <<>>
  ELSE LET key == CHOOSE key \in keys : TRUE
       IN <<key>> \o KeySeq(keys \ {key})

RECURSIVE Store(_, _)
RECURSIVE StoreProps(_, _, _, _)
\* the object or array literal v evaluated on heap h: the heap with its cells,
\* and the reference of the outermost one
Store(h, v) ==
  LET inner == StoreProps(h, Props(v), KeySeq(DOMAIN Props(v)), <<>>)
  IN [heap |-> Append(inner.heap, [k |-> v.k, f |-> inner.f]),
      slot |-> Ref(Len(inner.heap) + 1)]

\* the properties of a literal, evaluated one after the other
StoreProps(h, props, keys, done) ==
  IF keys = <<>> THEN [heap |-> h, f |-> done]
  ELSE LET key == Head(keys)
       IN IF IsComposite(props[key])
          THEN LET inner == Store(h, props[key])
               IN StoreProps(inner.heap, props, Tail(keys), done @@ (key :> inner.slot))
          ELSE StoreProps(h, props, Tail(keys), done @@ (key :> props[key]))

RECURSIVE Deref(_, _)
\* the tree that hangs at a property of heap h, as a value
Deref(h, slot) ==
  IF ~IsRef(slot) THEN slot
  ELSE LET cell == h[slot.a]
       IN IF cell.k = "arr"
          THEN Arr([i \in 1..Cardinality(DOMAIN cell.f) |-> Deref(h, cell.f[IndexKey(i - 1)])])
          ELSE Obj([key \in DOMAIN cell.f |-> Deref(h, cell.f[key])])

\* a variant of the spread copy that hands back defaultConfig itself
SpreadAlias(h, b) == [heap |-> h, ref |-> b]

\* const result = { ...defaultConfig }: a new plain object with the own
\* properties of the cell at b, whatever that cell is
SpreadCopy(h, b) == [heap |-> Append(h, [k |-> "obj", f |-> h[b].f]), ref |-> Len(h) + 1]

\* result[key] = slot on heap h
SetProp(h, r, key, slot) ==
  [h EXCEPT ![r] = [@ EXCEPT !.f = [name \in DOMAIN @ \cup {key} |->
                                      IF name = key THEN slot ELSE @[name]]]]

RECURSIVE mergeConfigAt(_, _, _)
RECURSIVE MergeKeys(_, _, _, _)
\* mergeConfig(defaultConfig, userConfig) for the cells at b and o: the heap
\* after the call and the address of the object it returns
mergeConfigAt(h, b, o) ==
  LET copy == SpreadCopy(h, b)
  IN [heap |-> MergeKeys(copy.heap, copy.ref, o, KeySeq(DOMAIN h[o].f)), ref |-> copy.ref]

\* the for..in loop of mergeConfig over the remaining keys of userConfig
MergeKeys(h, r, o, keys) ==
  IF keys = <<>> THEN h
  ELSE LET key == Head(keys)
           given == h[o].f[key]
       IN IF IsRef(given) /\ key \in DOMAIN h[r].f /\ IsRef(h[r].f[key])
          THEN LET inner == mergeConfigAt(h, h[r].f[key].a, given.a)
               IN MergeKeys(SetProp(inner.heap, r, key, Ref(inner.ref)), r, o, Tail(keys))
          ELSE MergeKeys(SetProp(h, r, key, given), r, o, Tail(keys))

\* v.length
LengthOf(v) ==
  CASE v.k = "arr" -> Num(Len(v.a))
    [] v.k = "str" -> Num(Len(v.s))
    [] OTHER -> Get(v, "length")

\* shouldShowOnCurrentURL: "true", "false", or "throws" when urlPatterns has no
\* some method (it is not an array) and the call raises a TypeError
shouldShowOnCurrentURL(cfg, url) ==
  LET patterns == Get(cfg, "urlPatterns")
  IN IF ~Truthy(patterns) \/ LengthOf(patterns) = Num(0) THEN "true"
     ELSE IF patterns.k # "arr" THEN "throws"
     ELSE IF \E i \in 1..Len(patterns.a) :
               patterns.a[i].k = "str" /\ Includes(url, patterns.a[i].s)
          THEN "true" ELSE "false"

\* config.timerSettings.<name>, a number in every modelled configuration
TimerSetting(cfg, name) == Get(Get(cfg, "timerSettings"), name).n

-----------------------------------------------------------------------------
(* CSV parsing, fallback rows, promo selection *)

\* cache.promoData and the resolved value of fetchPromoData: an array of rows,
\* each row a sequence of strings
Rows(r) == [k |-> "rows", r |-> r]

\* the (1-based) position of the first line feed of s, 0 when it has none
FirstNewline(s) ==
  IF \E i \in 1..Len(s) : s[i] = "\n"
  THEN CHOOSE i \in 1..Len(s) : s[i] = "\n" /\ \A j \in 1..(i - 1) : s[j] # "\n"
  ELSE 0

RECURSIVE SplitLines(_)
\* text.split('\n')
SplitLines(text) ==
  LET i == FirstNewline(text)
  IN IF i = 0 THEN <<text>>
     ELSE <<Sub(text, 1, i - 1)>> \o SplitLines(Sub(text, i + 1, Len(text) - i))

RECURSIVE ScanLineEveryComma(_, _, _, _, _)
\* a variant of the character loop that splits at every comma
ScanLineEveryComma(line, i, inQuote, currentValue, row) ==
  IF i > Len(line) THEN Append(row, Trim(currentValue))
  ELSE IF line[i] = "\"" THEN ScanLineEveryComma(line, i + 1, ~inQuote, currentValue, row)
  ELSE IF line[i] = ","
       THEN ScanLineEveryComma(line, i + 1, inQuote, <<>>, Append(row, Trim(currentValue)))
  ELSE ScanLineEveryComma(line, i + 1, inQuote, Append(currentValue, line[i]), row)

RECURSIVE ScanLine(_, _, _, _, _)
\* the character loop of parseCSV over one line, from (1-based) position i,
\* and the push of the last value after the loop
ScanLine(line, i, inQuote, currentValue, row) ==
  IF i > Len(line) THEN Append(row, Trim(currentValue))
  ELSE IF line[i] = "\"" THEN ScanLine(line, i + 1, ~inQuote, currentValue, row)
  ELSE IF line[i] = "," /\ ~inQuote
       THEN ScanLine(line, i + 1, inQuote, <<>>, Append(row, Trim(currentValue)))
  ELSE ScanLine(line, i + 1, inQuote, Append(currentValue, line[i]), row)

\* the filter of parseCSV: rows with a non-blank first field
KeepRow(row) == Len(row) > 0 /\ Trim(row[1]) # <<>>

\* parseCSV
parseCSV(text) ==
  LET lines == SplitLines(text)
      parsed == [n \in 1..Len(lines) |-> ScanLine(lines[n], 1, FALSE, <<>>, <<>>)]
  IN SelectSeq(parsed, KeepRow)

\* getFallbackPromoData
getFallbackPromoData ==
  << <<<<"C", "o", "u", "n", "t", "r", "y">>, <<"P", "r", "o", "m", "o", "T", "e", "x", "t">>, <<"S", "t", "a", "r", "t", "D", "a", "t", "e">>, <<"E", "n", "d", "D", "a", "t", "e">>>>,
     <<<<"A", "U">>, <<"A", "u", "s", "t", "r", "a", "l", "i", "a", " ", "D", "a", "y", " ", "S", "p", "e", "c", "i", "a", "l">>, <<"2", "0", "2", "5", "-", "0", "1", "-", "2", "6">>, <<"2", "0", "2", "5", "-", "0", "1", "-", "2", "6">>>>,
     <<<<"D", "E">>, <<"G", "e", "r", "m", "a", "n", " ", "U", "n", "i", "t", "y", " ", "D", "a", "y", " ", "S", "p", "e", "c", "i", "a", "l">>, <<"2", "0", "2", "5", "-", "1", "0", "-", "0", "3">>, <<"2", "0", "2", "5", "-", "1", "0", "-", "0", "3">>>>,
     <<<<"U", "S">>, <<"4", "t", "h", " ", "o", "f", " ", "J", "u", "l", "y", " ", "S", "p", "e", "c", "i", "a", "l">>, <<"2", "0", "2", "5", "-", "0", "7", "-", "0", "4">>, <<"2", "0", "2", "5", "-", "0", "7", "-", "0", "4">>>> >>

\* row[n] of a parsed row (0-based n): a string, undefined past the end
Field(row, n) == IF n < Len(row) THEN Str(row[n + 1]) ELSE Undefined

\* a variant of getPromoText whose scan starts at the first row
getPromoTextFromFirstRow(code, currentDate, data, cfg) ==
  IF ~Truthy(data) \/ Len(data.r) <= 1 THEN Get(cfg, "defaultText")
  ELSE LET hits == {i \in 1..Len(data.r) : Field(data.r[i], 0) = code}
       IN IF hits = {} THEN Get(cfg, "defaultText")
          ELSE Field(data.r[CHOOSE i \in hits : \A j \in hits : i <= j], 1)

\* getPromoText(countryCode, currentDate, promoData) under configuration cfg;
\* the code that would read currentDate is commented out
getPromoText(code, currentDate, data, cfg) ==
  IF ~Truthy(data) \/ Len(data.r) <= 1 THEN Get(cfg, "defaultText")
  ELSE LET hits == {i \in 2..Len(data.r) : Field(data.r[i], 0) = code}
       IN IF hits = {} THEN Get(cfg, "defaultText")
          ELSE Field(data.r[CHOOSE i \in hits : \A j \in hits : i <= j], 1)

-----------------------------------------------------------------------------
(* JSON.parse, as far as the code uses it: whether it returns or throws *)

Digits == {"0", "1", "2", "3", "4", "5", "6", "7", "8", "9"}
HexDigits == Digits \cup {"a", "b", "c", "d", "e", "f", "A", "B", "C", "D", "E", "F"}
JsonEscapes == {"\"", "\\", "/", "b", "f", "n", "r", "t"}

\* s[i], or "" past the end
At(s, i) == IF i >= 1 /\ i <= Len(s) THEN s[i] ELSE ""

RECURSIVE SkipWs(_, _)
\* the first position from i on that holds no white space
SkipWs(s, i) == IF At(s, i) \in WhiteSpace THEN SkipWs(s, i + 1) ELSE i

RECURSIVE SkipDigits(_, _)
SkipDigits(s, i) == IF At(s, i) \in Digits THEN SkipDigits(s, i + 1) ELSE i

RECURSIVE JsonStringEnd(_, _)
\* i is past the opening quote: the position after the closing quote, 0 if none
JsonStringEnd(s, i) ==
  IF i > Len(s) THEN 0
  ELSE IF s[i] = "\"" THEN i + 1
  ELSE IF s[i] \in {"\n", "\r", "\t"} THEN 0
  ELSE IF s[i] = "\\"
       THEN IF At(s, i + 1) \in JsonEscapes THEN JsonStringEnd(s, i + 2)
            ELSE IF At(s, i + 1) = "u" /\ \A j \in 2..5 : At(s, i + j) \in HexDigits
                 THEN JsonStringEnd(s, i + 6)
            ELSE 0
  ELSE JsonStringEnd(s, i + 1)

\* a JSON number starting at i: the position after it, 0 if none
JsonNumberEnd(s, i) ==
  LET a == IF At(s, i) = "-" THEN i + 1 ELSE i
      b == IF At(s, a) = "0" THEN a + 1
           ELSE IF At(s, a) \in Digits THEN SkipDigits(s, a) ELSE 0
      c == IF b = 0 THEN 0
           ELSE IF At(s, b) = "."
                THEN IF At(s, b + 1) \in Digits THEN SkipDigits(s, b + 1) ELSE 0
           ELSE b
  IN IF c = 0 THEN 0
     ELSE IF At(s, c) \in {"e", "E"}
          THEN LET e == IF At(s, c + 1) \in {"+", "-"} THEN c + 2 ELSE c + 1
               IN IF At(s, e) \in Digits THEN SkipDigits(s, e) ELSE 0
     ELSE c

RECURSIVE JsonValueEnd(_, _)
RECURSIVE JsonMembersEnd(_, _)
RECURSIVE JsonElementsEnd(_, _)

\* i is at a member's key: the position after the object's closing brace, 0 if none
JsonMembersEnd(s, i) ==
  IF At(s, i) # "\"" THEN 0
  ELSE LET k == JsonStringEnd(s, i + 1)
           c == IF k = 0 THEN 0 ELSE SkipWs(s, k)
           v == IF c = 0 \/ At(s, c) # ":" THEN 0 ELSE JsonValueEnd(s, SkipWs(s, c + 1))
           e == IF v = 0 THEN 0 ELSE SkipWs(s, v)
       IN IF e = 0 THEN 0
          ELSE IF At(s, e) = "," THEN JsonMembersEnd(s, SkipWs(s, e + 1))
          ELSE IF At(s, e) = "}" THEN e + 1
          ELSE 0

\* i is at an array element: the position after the closing bracket, 0 if none
JsonElementsEnd(s, i) ==
  LET v == JsonValueEnd(s, i)
      e == IF v = 0 THEN 0 ELSE SkipWs(s, v)
  IN IF e = 0 THEN 0
     ELSE IF At(s, e) = "," THEN JsonElementsEnd(s, SkipWs(s, e + 1))
     ELSE IF At(s, e) = "]" THEN e + 1
     ELSE 0

\* a JSON value starting at i: the position after it, 0 if none
JsonValueEnd(s, i) ==
  LET ch == At(s, i)
  IN CASE ch = "{" ->
            LET j == SkipWs(s, i + 1)
            IN IF At(s, j) = "}" THEN j + 1 ELSE JsonMembersEnd(s, j)
       [] ch = "[" ->
            LET j == SkipWs(s, i + 1)
            IN IF At(s, j) = "]" THEN j + 1 ELSE JsonElementsEnd(s, j)
       [] ch = "\"" -> JsonStringEnd(s, i + 1)
       [] ch = "t" -> IF OccursAt(s, <<"t", "r", "u", "e">>, i) THEN i + 4 ELSE 0
       [] ch = "f" -> IF OccursAt(s, <<"f", "a", "l", "s", "e">>, i) THEN i + 5 ELSE 0
       [] ch = "n" -> IF OccursAt(s, <<"n", "u", "l", "l">>, i) THEN i + 4 ELSE 0
       [] OTHER -> JsonNumberEnd(s, i)

\* whether JSON.parse(s) returns (TRUE) or throws a SyntaxError (FALSE)
JsonParses(s) ==
  LET e == JsonValueEnd(s, SkipWs(s, 1))
  IN e # 0 /\ SkipWs(s, e) = Len(s) + 1

-----------------------------------------------------------------------------
(* Country resolution *)

UpperCase == {"A", "B", "C", "D", "E", "F", "G", "H", "I", "J", "K", "L", "M",
              "N", "O", "P", "Q", "R", "S", "T", "U", "V", "W", "X", "Y", "Z"}

\* the strings that are two upper-case letters
TwoLetterCodes == {<<a, b>> : a \in UpperCase, b \in UpperCase}

CheckoutKey == "wc_stripe_checkout_fields"
BillingCountry == <<"b", "i", "l", "l", "i", "n", "g", "_", "c", "o", "u", "n", "t", "r", "y">>
\* the literal head of the regular expression: "billing_country":
BillingMarker == <<"\"">> \o BillingCountry \o <<"\"", ":">>

\* /"billing_country":\s*"([A-Z]{2})"/ matching at (1-based) position i
RegexAt(s, i) ==
  /\ OccursAt(s, BillingMarker, i)
  /\ LET q == SkipWs(s, i + Len(BillingMarker))
     IN /\ At(s, q) = "\""
        /\ At(s, q + 1) \in UpperCase
        /\ At(s, q + 2) \in UpperCase
        /\ At(s, q + 3) = "\""

\* where the capture group of a match at i starts
CaptureAt(s, i) == SkipWs(s, i + Len(BillingMarker)) + 1

\* a variant of the match whose pattern captures whatever stands between the
\* quotes: /"billing_country":\s*"([^"]*)"/
BillingMatchLoose(s) ==
  LET closing(i) == {j \in CaptureAt(s, i)..Len(s) : s[j] = "\""}
      hits == {i \in 1..Len(s) :
                 /\ OccursAt(s, BillingMarker, i)
                 /\ At(s, SkipWs(s, i + Len(BillingMarker))) = "\""
                 /\ closing(i) # {}}
  IN IF hits = {} THEN Null
     ELSE LET i == CHOOSE i \in hits : \A j \in hits : i <= j
              q == CHOOSE q \in closing(i) : \A j \in closing(i) : q <= j
          IN Str(Sub(s, CaptureAt(s, i), q - CaptureAt(s, i)))

\* value.match(regex): match[1] of the leftmost match, null without one
BillingMatch(s) ==
  LET hits == {i \in 1..Len(s) : RegexAt(s, i)}
  IN IF hits = {} THEN Null
     ELSE Str(Sub(s, CaptureAt(s, CHOOSE i \in hits : \A j \in hits : i <= j), 2))

\* sessionStorage.getItem(key): a string, or null for an absent key
GetItem(st, key) ==
  IF \E i \in 1..Len(st) : st[i].key = key
  THEN Str(st[CHOOSE i \in 1..Len(st) : st[i].key = key].value)
  ELSE Null

\* the backup scan over all entries, in key(i) order
ScanStorage(st) ==
  LET hits == {i \in 1..Len(st) :
                 /\ Len(st[i].value) > 0
                 /\ Includes(st[i].value, BillingCountry)
                 /\ Truthy(BillingMatch(st[i].value))}
  IN IF hits = {} THEN Null
     ELSE BillingMatch(st[CHOOSE i \in hits : \A j \in hits : i <= j].value)

\* getCountryFromSessionStorage; throws: touching sessionStorage raises, which
\* the outer try block catches
getCountryFromSessionStorage(st, throws) ==
  IF throws THEN Null
  ELSE LET checkoutFields == GetItem(st, CheckoutKey)
           direct == IF Truthy(checkoutFields) /\ JsonParses(checkoutFields.s)
                     THEN BillingMatch(checkoutFields.s)
                     ELSE Null
       IN IF Truthy(direct) THEN direct ELSE ScanStorage(st)

\* getCountryFromHeader
getCountryFromHeader == Null

\* the value getCountry's promise resolves with
getCountry(st, throws) ==
  IF Truthy(getCountryFromHeader) THEN getCountryFromHeader
  ELSE LET countryFromSession == getCountryFromSessionStorage(st, throws)
       IN IF Truthy(countryFromSession) THEN countryFromSession
          ELSE Str(<<"U", "S">>)

-----------------------------------------------------------------------------
(* The countdown timer *)

\* the period startTimer passes to setInterval
TickPeriod == 1000

RECURSIVE DecimalString(_)
\* String(n) for n >= 0
DecimalString(n) ==
  LET d == <<"0", "1", "2", "3", "4", "5", "6", "7", "8", "9">>[(n % 10) + 1]
  IN IF n < 10 THEN <<d>> ELSE Append(DecimalString(n \div 10), d)

\* String(n).padStart(2, '0')
PadStart2(n) ==
  LET str == DecimalString(n)
  IN IF Len(str) < 2 THEN <<"0">> \o str ELSE str

\* the text updateTimerDisplay writes into the element
TimerText(m, sec) == Str(PadStart2(m) \o <<":">> \o PadStart2(sec))

\* a variant of the tick's decrement that borrows a minute without looking at it
DecrementNoGuard(m, sec) ==
  IF sec > 0 THEN [minutes |-> m, seconds |-> sec - 1, expired |-> FALSE]
  ELSE [minutes |-> m - 1, seconds |-> 59, expired |-> FALSE]

\* a variant of the tick's decrement that never reports the expiration
DecrementSilent(m, sec) ==
  IF sec > 0 THEN [minutes |-> m, seconds |-> sec - 1, expired |-> FALSE]
  ELSE IF m > 0 THEN [minutes |-> m - 1, seconds |-> 59, expired |-> FALSE]
  ELSE [minutes |-> m, seconds |-> sec, expired |-> FALSE]

\* the decrement of the interval callback: the new state.minutes and
\* state.seconds, and whether handleTimerExpiration is called
Decrement(m, sec) ==
  IF sec > 0 THEN [minutes |-> m, seconds |-> sec - 1, expired |-> FALSE]
  ELSE IF m > 0 THEN [minutes |-> m - 1, seconds |-> 59, expired |-> FALSE]
  ELSE [minutes |-> m, seconds |-> sec, expired |-> TRUE]

\* the delay handleTimerExpiration passes to setTimeout
RestartDelay(cfg) ==
  LET v == Get(Get(cfg, "timerSettings"), "restartAfterMinutes")
  IN IF "q" \in DOMAIN v THEN (v.n * 60 * 1000) \div v.q ELSE v.n * 60 * 1000

\* a variant of clearInterval's effect in startTimer that clears nothing
KeepIntervals(ivs, handle) == ivs

\* the effect, on the browser's interval timers, of the clearInterval in
\* startTimer: the timer state.timerInterval names is cancelled (0 is null)
ClearInterval(ivs, handle) ==
  IF handle # 0 THEN {iv \in ivs : iv.id # handle} ELSE ivs

\* the timers that are due
DueIntervals == {iv \in intervals : iv.due = 0}
DueTimeouts == {i \in 1..Len(timeouts) : timeouts[i] = 0}

\* the time until the next timer fires (only asked when there is a timer)
NextDue ==
  LET dues == {iv.due : iv \in intervals} \cup {timeouts[i] : i \in 1..Len(timeouts)}
  IN CHOOSE d \in dues : \A e \in dues : d <= e

\* the sequence s without its i-th element
RemoveAt(s, i) == [j \in 1..(Len(s) - 1) |-> IF j < i THEN s[j] ELSE s[j + 1]]

\* startTimer, called with or without a display target to be found (the element
\* argument, or #timer-display in the document)
startTimer(hasTarget) ==
  /\ intervals' =
       IF hasTarget
       THEN ClearInterval(intervals, timerInterval) \cup {[id |-> nextId, due |-> TickPeriod]}
       ELSE ClearInterval(intervals, timerInterval)
  /\ timerInterval' = IF hasTarget THEN nextId ELSE timerInterval
  /\ nextId' = IF hasTarget THEN nextId + 1 ELSE nextId
  /\ display' = IF hasTarget THEN TimerText(minutes, seconds) ELSE display

\* the host page calls HairqareTimer.startTimer
StartTimerCall(hasTarget) ==
  /\ startTimer(hasTarget)
  /\ calls' = [calls EXCEPT !.start = @ + 1]
  /\ lastCall' = [op |-> "start", arg |-> IF hasTarget THEN "target" ELSE "none"]
  /\ UNCHANGED <<config, minutes, seconds, countryCode, promoText, isInitialized,
                 promoData, lastFetched, now, store, storeThrows, href, bodyReady,
                 procs, timeouts, expiredFor, sinceTick, directVars>>

\* the setInterval callback of startTimer fires (with handleTimerExpiration
\* when the time is up)
Tick ==
  /\ \E iv \in DueIntervals :
       LET next == Decrement(minutes, seconds)
       IN /\ minutes' = next.minutes
          /\ seconds' = next.seconds
          /\ timeouts' = IF next.expired THEN Append(timeouts, RestartDelay(config))
                         ELSE timeouts
          /\ display' = TimerText(next.minutes, next.seconds)
          /\ intervals' = (intervals \ {iv}) \cup {[iv EXCEPT !.due = TickPeriod]}
          /\ lastCall' = [op |-> "tick", arg |-> IF next.expired THEN "expired" ELSE "counted"]
          /\ expiredFor' = IF next.expired /\ expiredFor < 0 THEN 0 ELSE expiredFor
          /\ sinceTick' = 0
  /\ UNCHANGED <<config, countryCode, promoText, timerInterval, isInitialized,
                 promoData, lastFetched, now, store, storeThrows, href, bodyReady,
                 procs, nextId, calls, directVars>>

\* the setTimeout callback of handleTimerExpiration fires (the earliest
\* scheduled of those due)
RestartFire ==
  /\ DueTimeouts # {}
  /\ LET i == CHOOSE i \in DueTimeouts : \A j \in DueTimeouts : i <= j
     IN timeouts' = RemoveAt(timeouts, i)
  /\ minutes' = TimerSetting(config, "initialMinutes")
  /\ seconds' = TimerSetting(config, "initialSeconds")
  /\ lastCall' = [op |-> "restart", arg |-> "reset"]
  /\ expiredFor' = -1
  /\ UNCHANGED <<config, countryCode, promoText, timerInterval, isInitialized,
                 promoData, lastFetched, now, store, storeThrows, href, bodyReady,
                 display, procs, intervals, nextId, calls, sinceTick, directVars>>

\* the effect of d milliseconds passing on the timers
TimersAfter(d) ==
  /\ intervals' = {[iv EXCEPT !.due = @ - d] : iv \in intervals}
  /\ timeouts' = [i \in 1..Len(timeouts) |-> timeouts[i] - d]
  /\ expiredFor' = IF expiredFor >= 0 THEN expiredFor + d ELSE expiredFor
  /\ sinceTick' = IF sinceTick < 0 THEN sinceTick
                  ELSE IF sinceTick + d > TickPeriod THEN TickPeriod ELSE sinceTick + d

\* time passes until the next timer is due; the clock is not tracked (the timer
\* never reads it)
TimerElapse ==
  /\ intervals # {} \/ timeouts # <<>>
  /\ NextDue > 0
  /\ TimersAfter(NextDue)
  /\ lastCall' = [op |-> "elapse", arg |-> "due"]
  /\ UNCHANGED <<config, minutes, seconds, countryCode, promoText, timerInterval,
                 isInitialized, promoData, lastFetched, now, store, storeThrows,
                 href, bodyReady, display, procs, nextId, calls, directVars>>

-----------------------------------------------------------------------------
(* The promo-data cache and the initialization pipeline *)

\* the cache lifetime fetchPromoData compares the cache age with
FreshFor == 3600000

\* a variant of the freshness test that still serves the cache at the limit
FetchDecisionInclusive(cfg, data, fetchedAt, t) ==
  IF Truthy(data) /\ fetchedAt # 0 /\ t - fetchedAt <= FreshFor THEN "cache"
  ELSE IF Truthy(Get(cfg, "dataSource")) /\ Truthy(Get(Get(cfg, "dataSource"), "url"))
       THEN "network"
  ELSE "fallback"

\* what fetchPromoData does when called at time t: serve the cache, fetch the
\* data source, or resolve with the fallback rows
FetchDecision(cfg, data, fetchedAt, t) ==
  IF Truthy(data) /\ fetchedAt # 0 /\ t - fetchedAt < FreshFor THEN "cache"
  ELSE IF Truthy(Get(cfg, "dataSource")) /\ Truthy(Get(Get(cfg, "dataSource"), "url"))
       THEN "network"
  ELSE "fallback"

\* a promise chain: an init pipeline or a host call of fetchPromoData.  pc is the
\* callback it waits for, country the value getCountry resolved with, data the
\* rows fetchPromoData resolved with and via where they came from
Chain(kind, pc, country, data, via) ==
  [kind |-> kind, pc |-> pc, country |-> country, data |-> data, via |-> via]

\* the chain fetchPromoData leaves behind for a caller of the given kind
FetchPromoDataChain(kind, country) ==
  LET decision == FetchDecision(config, promoData, lastFetched, now)
  IN CASE decision = "cache" -> Chain(kind, "data", country, promoData, "cache")
       [] decision = "network" -> Chain(kind, "fetching", country, Null, "none")
       [] OTHER -> Chain(kind, "data", country, Rows(getFallbackPromoData), "fallback")

\* a variant of the fetch failure handler that stores the fallback rows
FetchFailedCaching(data, fetchedAt, t) ==
  [promoData |-> Rows(getFallbackPromoData), lastFetched |-> t,
   data |-> Rows(getFallbackPromoData), via |-> "fallback"]

\* the catch handler of fetchPromoData: the cache as it leaves it, and the value
\* the promise resolves with
FetchFailed(data, fetchedAt, t) ==
  [promoData |-> data, lastFetched |-> fetchedAt,
   data |-> Rows(getFallbackPromoData), via |-> "fallback"]

\* the success handlers of fetchPromoData on the response body csvText
FetchSucceeded(csvText, t) ==
  LET data == Rows(parseCSV(csvText))
  IN [promoData |-> data, lastFetched |-> t, data |-> data, via |-> "network"]

\* the host page calls HairqareTimer.fetchPromoData
GetDataCall ==
  /\ procs' = Append(procs, FetchPromoDataChain("getData", Null))
  /\ calls' = [calls EXCEPT !.getData = @ + 1]
  /\ lastCall' = [op |-> "getData", arg |-> procs'[Len(procs')].via]
  /\ UNCHANGED <<config, minutes, seconds, countryCode, promoText,
                 timerInterval, isInitialized, promoData, lastFetched, now,
                 store, storeThrows, href, bodyReady, display, intervals,
                 timeouts, nextId, expiredFor, sinceTick, directVars>>

\* the fetch of the data source settles for chain i: with a success response
\* and its body, or with a failure (a non-success status or a transport error)
FetchResponse(i, ok, csvText, failure) ==
  /\ procs[i].pc = "fetching"
  /\ LET out == IF ok THEN FetchSucceeded(csvText, now)
                ELSE FetchFailed(promoData, lastFetched, now)
     IN /\ promoData' = out.promoData
        /\ lastFetched' = out.lastFetched
        /\ procs' = [procs EXCEPT ![i] = [@ EXCEPT !.pc = "data", !.data = out.data,
                                                   !.via = out.via]]
  /\ lastCall' = [op |-> "fetched", arg |-> IF ok THEN "ok" ELSE failure]
  /\ UNCHANGED <<config, minutes, seconds, countryCode, promoText,
                 timerInterval, isInitialized, now, store, storeThrows, href,
                 bodyReady, display, intervals, timeouts, nextId, calls,
                 expiredFor, sinceTick, directVars>>

\* a variant of continueInitialization that asks for the promo data at once
ContinueWithoutCountry(st, throws) ==
  Chain("init", "data", Null, Rows(getFallbackPromoData), "fallback")

\* continueInitialization up to its first then: getCountry has run and its
\* promise is resolved
ContinueInitialization(st, throws) ==
  Chain("init", "country", getCountry(st, throws), Null, "none")

\* the guard at the top of init
AlreadyInitialized(flag) == flag

\* the host page calls HairqareTimer.init(userConfig)
InitCall(userConfig) ==
  /\ calls' = [calls EXCEPT !.init = @ + 1]
  /\ IF AlreadyInitialized(isInitialized)
     THEN /\ lastCall' = [op |-> "init", arg |-> "ignored"]
          /\ UNCHANGED <<config, minutes, seconds, isInitialized, procs>>
     ELSE LET merged == mergeConfig(config, IF Truthy(userConfig) THEN userConfig
                                            ELSE Obj(<<>>))
              show == shouldShowOnCurrentURL(merged, href)
          IN /\ config' = merged
             /\ IF show # "true"
                THEN /\ lastCall' = [op |-> "init",
                                     arg |-> IF show = "throws" THEN "threw" ELSE "hidden"]
                     /\ UNCHANGED <<minutes, seconds, isInitialized, procs>>
                ELSE /\ minutes' = TimerSetting(merged, "initialMinutes")
                     /\ seconds' = TimerSetting(merged, "initialSeconds")
                     /\ procs' = Append(procs,
                          IF Truthy(userConfig) /\ Truthy(Get(userConfig, "configUrl"))
                          THEN Chain("init", "loadConfig", Null, Null, "none")
                          ELSE ContinueInitialization(store, storeThrows))
                     /\ isInitialized' = TRUE
                     /\ lastCall' = [op |-> "init", arg |-> "started"]
  /\ UNCHANGED <<countryCode, promoText, timerInterval, promoData,
                 lastFetched, now, store, storeThrows, href, bodyReady,
                 display, intervals, timeouts, nextId, expiredFor, sinceTick, directVars>>

\* a variant of loadConfigFromUrl that merges what the server holds whether
\* the fetch succeeded or not
ConfigAfterLoadAlways(cfg, ok, doc) == mergeConfig(cfg, doc)

\* this.config once the promise of loadConfigFromUrl has settled: merged with
\* the document when the fetch succeeded, untouched when it was rejected
ConfigAfterLoad(cfg, ok, doc) == IF ok THEN mergeConfig(cfg, doc) ELSE cfg

\* the fetch of loadConfigFromUrl settles for chain i: with a document that is
\* merged in, or with a failure (transport error, non-success status, a body
\* that is not JSON) while the server holds doc; either way
\* continueInitialization runs
ConfigResponse(i, ok, doc, failure) ==
  /\ procs[i].pc = "loadConfig"
  /\ config' = ConfigAfterLoad(config, ok, doc)
  /\ procs' = [procs EXCEPT ![i] = ContinueInitialization(store, storeThrows)]
  /\ lastCall' = [op |-> "config", arg |-> IF ok THEN "ok" ELSE failure]
  /\ UNCHANGED <<minutes, seconds, countryCode, promoText, timerInterval,
                 isInitialized, promoData, lastFetched, now, store,
                 storeThrows, href, bodyReady, display, intervals, timeouts,
                 nextId, calls, expiredFor, sinceTick, directVars>>

\* the first then of continueInitialization runs for chain i
ThenCountry(i) ==
  /\ procs[i].pc = "country"
  /\ countryCode' = procs[i].country
  /\ procs' = [procs EXCEPT ![i] = FetchPromoDataChain("init", procs[i].country)]
  /\ lastCall' = [op |-> "country", arg |-> procs'[i].via]
  /\ UNCHANGED <<config, minutes, seconds, promoText, timerInterval,
                 isInitialized, promoData, lastFetched, now, store,
                 storeThrows, href, bodyReady, display, intervals, timeouts,
                 nextId, calls, expiredFor, sinceTick, directVars>>

\* the second then of continueInitialization runs for chain i: the promo text
\* is selected and the platform branch ends in startTimer with the timer element
\* of the page or of the bar it inserts.  Without document.body the branch
\* throws; the catch handler stores the default text and its initGeneric throws
\* again, so that no timer starts.
ThenSelect(i) ==
  /\ procs[i].kind = "init"
  /\ procs[i].pc = "data"
  /\ procs' = [procs EXCEPT ![i] = [@ EXCEPT !.pc = "done"]]
  /\ IF bodyReady
     THEN /\ promoText' = getPromoText(countryCode, now, procs[i].data, config)
          /\ startTimer(TRUE)
          /\ lastCall' = [op |-> "select", arg |-> "started"]
     ELSE /\ promoText' = Get(config, "defaultText")
          /\ lastCall' = [op |-> "select", arg |-> "threw"]
          /\ UNCHANGED <<intervals, timerInterval, nextId, display>>
  /\ UNCHANGED <<config, minutes, seconds, countryCode, isInitialized,
                 promoData, lastFetched, now, store, storeThrows, href,
                 bodyReady, timeouts, calls, expiredFor, sinceTick, directVars>>

\* the document finishes parsing: document.body exists from now on
DomReady ==
  /\ ~bodyReady
  /\ bodyReady' = TRUE
  /\ lastCall' = [op |-> "dom", arg |-> "ready"]
  /\ UNCHANGED <<config, minutes, seconds, countryCode, promoText,
                 timerInterval, isInitialized, promoData, lastFetched, now,
                 store, storeThrows, href, display, procs, intervals,
                 timeouts, nextId, calls, expiredFor, sinceTick, directVars>>

\* the host page calls HairqareTimer.getCountry; the chain holds the value the
\* promise resolved with
GetCountryCall ==
  /\ procs' = <<Chain("getCountry", "done", getCountry(store, storeThrows), Null, "none")>>
  /\ lastCall' = [op |-> "getCountry", arg |-> "resolved"]
  /\ UNCHANGED <<config, minutes, seconds, countryCode, promoText, timerInterval,
                 isInitialized, promoData, lastFetched, now, store, storeThrows,
                 href, bodyReady, display, intervals, timeouts, nextId, calls,
                 expiredFor, sinceTick, directVars>>

\* the page (the shop's checkout scripts) stores value under key: in place when
\* the key exists, as a new last entry otherwise
HostSetItem(key, value) ==
  /\ store' = IF \E i \in 1..Len(store) : store[i].key = key
              THEN [i \in 1..Len(store) |->
                      IF store[i].key = key THEN [key |-> key, value |-> value]
                      ELSE store[i]]
              ELSE Append(store, [key |-> key, value |-> value])
  /\ lastCall' = [op |-> "setItem", arg |-> key]
  /\ UNCHANGED <<config, minutes, seconds, countryCode, promoText, timerInterval,
                 isInitialized, promoData, lastFetched, now, storeThrows, href,
                 bodyReady, display, procs, intervals, timeouts, nextId, calls,
                 expiredFor, sinceTick, directVars>>

\* the page removes the entry stored under key
HostRemoveItem(key) ==
  /\ \E i \in 1..Len(store) : store[i].key = key
  /\ store' = SelectSeq(store, LAMBDA e : e.key # key)
  /\ lastCall' = [op |-> "removeItem", arg |-> key]
  /\ UNCHANGED <<config, minutes, seconds, countryCode, promoText, timerInterval,
                 isInitialized, promoData, lastFetched, now, storeThrows, href,
                 bodyReady, display, procs, intervals, timeouts, nextId, calls,
                 expiredFor, sinceTick, directVars>>

\* whether d milliseconds can pass without a timer becoming overdue
CanElapse(d) ==
  /\ d > 0
  /\ \A iv \in intervals : d <= iv.due
  /\ \A i \in 1..Len(timeouts) : d <= timeouts[i]

\* d milliseconds pass: the clock advances and the timers come closer
Elapse(d) ==
  /\ CanElapse(d)
  /\ now' = now + d
  /\ TimersAfter(d)
  /\ calls' = [calls EXCEPT !.elapse = @ + 1]
  /\ lastCall' = [op |-> "elapse", arg |-> "time"]
  /\ UNCHANGED <<config, minutes, seconds, countryCode, promoText, timerInterval,
                 isInitialized, promoData, lastFetched, store, storeThrows,
                 href, bodyReady, display, procs, nextId, directVars>>

-----------------------------------------------------------------------------
(* Bounds of the model *)

MaxMinutes == 1     \* largest initialMinutes a modelled caller configures
MaxSeconds == 1     \* largest initialSeconds a modelled caller configures
MaxRestart == 1     \* largest restartAfterMinutes a modelled caller configures, in
                    \* twentieths of a minute (steps of three seconds)
MaxStarts == 2      \* host calls of startTimer
MaxElapse == 6      \* steps of time while the host calls startTimer
MaxInitCalls == 2   \* host calls of init
MaxWait == 2        \* steps of time during and after initialization
MaxGetData == 3     \* host calls of fetchPromoData
MaxAdvance == 2     \* steps of time between the calls of fetchPromoData
MaxStored == 2      \* entries of sessionStorage
MaxMerges == 2      \* direct calls of mergeConfig
MaxSelects == 2     \* direct calls of getPromoText
MaxText == 4        \* characters of a generated CSV text

-----------------------------------------------------------------------------
(* The state after construction, and the inputs *)

\* a caller's configuration that sets the three timer settings: m minutes,
\* sec seconds, and a restart delay of r / 20 minutes
TimerSettingsConfig(m, sec, r) ==
  Obj([key \in {"timerSettings"} |->
    Obj([t \in {"initialMinutes", "initialSeconds", "restartAfterMinutes"} |->
      CASE t = "initialMinutes" -> Num(m)
        [] t = "initialSeconds" -> Num(sec)
        [] OTHER -> Ratio(r, 20)])])

\* a remote configuration document that overrides the initial time only
RemoteTimerDoc ==
  Obj([key \in {"timerSettings"} |->
    Obj([t \in {"initialMinutes", "initialSeconds"} |->
      IF t = "initialMinutes" THEN Num(0) ELSE Num(1)])])

NoCalls == [init |-> 0, getData |-> 0, start |-> 0, elapse |-> 0, direct |-> 0]

\* no direct call has been made
NoDirectCall ==
  /\ heap = <<>>
  /\ args = <<>>
  /\ returned = [k |-> "null"]

\* the object literal: config, state and cache as the script creates them, in a
\* page with nothing stored and no timers
Constructed ==
  /\ config = DefaultConfig
  /\ minutes = 28
  /\ seconds = 0
  /\ countryCode = Null
  /\ promoText = Null
  /\ timerInterval = 0
  /\ isInitialized = FALSE
  /\ promoData = Null
  /\ lastFetched = 0
  /\ display = Null
  /\ procs = <<>>
  /\ intervals = {}
  /\ timeouts = <<>>
  /\ nextId = 1
  /\ calls = NoCalls
  /\ lastCall = [op |-> "none", arg |-> "none"]
  /\ expiredFor = -1
  /\ sinceTick = -1

-----------------------------------------------------------------------------
(* Initialization: init calls, the two fetches, the promise callbacks, then   *)
(* the timer                                                                  *)

\* the configurations a caller passes to init: any choice of a timerSettings
\* branch, a configUrl, a urlPatterns list (one that the page's address
\* contains, or one it does not) and a data source URL
UserConfig(withTimer, withConfigUrl, patterns, withDataUrl) ==
  LET keys == (IF withTimer THEN {"timerSettings"} ELSE {})
              \cup (IF withConfigUrl THEN {"configUrl"} ELSE {})
              \cup (IF patterns # "none" THEN {"urlPatterns"} ELSE {})
              \cup (IF withDataUrl THEN {"dataSource"} ELSE {})
  IN Obj([key \in keys |->
       CASE key = "timerSettings" -> Get(TimerSettingsConfig(0, 1, 0), "timerSettings")
         [] key = "configUrl" -> Str(<<"u">>)
         [] key = "urlPatterns" ->
              Arr(<<Str(IF patterns = "match" THEN <<"c">> ELSE <<"x">>)>>)
         [] OTHER -> Obj([t \in {"url"} |-> Str(<<"d">>)])])

UserConfigs ==
  {UserConfig(t, u, pat, d) :
     t \in BOOLEAN, u \in BOOLEAN, pat \in {"none", "match", "other"}, d \in BOOLEAN}
  \cup {Undefined}

\* the documents the configuration URL serves
RemoteDocs ==
  {Obj(<<>>), RemoteTimerDoc, Obj([key \in {"dataSource"} |-> Obj([t \in {"url"} |-> Str(<<"d">>)])])}

\* the bodies the data source serves: three rows with a quoted field, nothing,
\* and a row that has a country and no text
CsvTexts ==
  { <<"C", ",", "T", "\n", "D", "E", ",", "\"", "a", ",", "b", "\"", "\n", "U", "S", ",", "x">>,
    <<>>,
    <<"C", ",", "T", "\n", "U", "S">> }

\* a checkout payload as the shop stores it
CheckoutDE == <<"{", "\"", "b", "i", "l", "l", "i", "n", "g", "_", "c", "o", "u", "n", "t", "r", "y", "\"", ":", "\"", "D", "E", "\"", "}">>

Init ==
  /\ Constructed
  /\ NoDirectCall
  /\ now = 1
  /\ \E stored \in {"nothing", "checkout", "denied"} :
       /\ store = IF stored = "nothing" THEN <<>>
                  ELSE <<[key |-> CheckoutKey, value |-> CheckoutDE]>>
       /\ storeThrows = (stored = "denied")
  /\ href = <<"/", "c">>
  /\ bodyReady \in BOOLEAN

Next ==
  \/ \E userConfig \in UserConfigs : calls.init < MaxInitCalls /\ InitCall(userConfig)
  \/ \E i \in 1..Len(procs), doc \in RemoteDocs : ConfigResponse(i, TRUE, doc, "none")
  \/ \E i \in 1..Len(procs), failure \in {"transport", "status", "syntax"}, doc \in RemoteDocs :
       ConfigResponse(i, FALSE, doc, failure)
  \/ \E i \in 1..Len(procs) : ThenCountry(i)
  \/ \E i \in 1..Len(procs), csvText \in CsvTexts : FetchResponse(i, TRUE, csvText, "none")
  \/ \E i \in 1..Len(procs), failure \in {"transport", "status"} :
       FetchResponse(i, FALSE, <<>>, failure)
  \/ \E i \in 1..Len(procs) : ThenSelect(i)
  \/ DomReady
  \/ Tick
  \/ RestartFire
  \/ calls.elapse < MaxWait /\ Elapse(TickPeriod)

Spec == Init /\ [][Next]_vars

-----------------------------------------------------------------------------
(* The cache on its own: the host calls fetchPromoData as time passes         *)

CacheInit ==
  /\ Constructed
  /\ NoDirectCall
  /\ now = 1
  /\ store = <<>>
  /\ storeThrows = FALSE
  /\ href = <<"/">>
  /\ bodyReady = TRUE

\* the host sets the data source before its first call (as init would)
SetDataSource ==
  /\ calls.getData = 0
  /\ Get(Get(config, "dataSource"), "url") = Str(<<>>)
  /\ config' = mergeConfig(config, UserConfig(FALSE, FALSE, "none", TRUE))
  /\ lastCall' = [op |-> "configure", arg |-> "dataSource"]
  /\ UNCHANGED <<minutes, seconds, countryCode, promoText, timerInterval,
                 isInitialized, promoData, lastFetched, now, store, storeThrows,
                 href, bodyReady, display, procs, intervals, timeouts, nextId,
                 calls, expiredFor, sinceTick, directVars>>

CacheNext ==
  \/ SetDataSource
  \/ calls.getData < MaxGetData /\ GetDataCall
  \/ \E i \in 1..Len(procs), csvText \in CsvTexts : FetchResponse(i, TRUE, csvText, "none")
  \/ \E i \in 1..Len(procs), failure \in {"transport", "status"} :
       FetchResponse(i, FALSE, <<>>, failure)
  \/ \E d \in {1, FreshFor - 1} : calls.elapse < MaxAdvance /\ Elapse(d)

CacheSpec == CacheInit /\ [][CacheNext]_vars

-----------------------------------------------------------------------------
(* Country resolution on its own: the page fills sessionStorage, the host     *)
(* calls getCountry                                                           *)

StoreKeys == {CheckoutKey, "cart", "note"}

\* what the page stores: a checkout payload; one with white space after the
\* colon; one with white space before it; a lower-case code; a three-letter
\* code; a marker that is no JSON; a payload cut short; nothing; other data
StoredValues ==
  { CheckoutDE,
    <<"{", "\"", "b", "i", "l", "l", "i", "n", "g", "_", "c", "o", "u", "n", "t", "r", "y", "\"", ":", " ", "\"", "F", "R", "\"", "}">>,
    <<"{", "\"", "b", "i", "l", "l", "i", "n", "g", "_", "c", "o", "u", "n", "t", "r", "y", "\"", " ", ":", "\"", "A", "U", "\"", "}">>,
    <<"{", "\"", "b", "i", "l", "l", "i", "n", "g", "_", "c", "o", "u", "n", "t", "r", "y", "\"", ":", "\"", "d", "e", "\"", "}">>,
    <<"{", "\"", "b", "i", "l", "l", "i", "n", "g", "_", "c", "o", "u", "n", "t", "r", "y", "\"", ":", "\"", "D", "E", "U", "\"", "}">>,
    <<"b", "i", "l", "l", "i", "n", "g", "_", "c", "o", "u", "n", "t", "r", "y", "=", "F", "R">>,
    <<"{", "\"", "b", "i", "l", "l", "i", "n", "g", "_", "c", "o", "u", "n", "t", "r", "y", "\"", ":", "\"", "F", "R", "\"">>,
    <<>>,
    <<"{", "\"", "x", "\"", ":", "1", "}">> }

CountryInit ==
  /\ Constructed
  /\ NoDirectCall
  /\ now = 1
  /\ store = <<>>
  /\ storeThrows \in BOOLEAN
  /\ href = <<"/">>
  /\ bodyReady = TRUE

CountryNext ==
  \/ \E key \in StoreKeys, value \in StoredValues :
       /\ (\E i \in 1..Len(store) : store[i].key = key) \/ Len(store) < MaxStored
       /\ HostSetItem(key, value)
  \/ \E key \in StoreKeys : HostRemoveItem(key)
  \/ GetCountryCall

CountrySpec == CountryInit /\ [][CountryNext]_vars

-----------------------------------------------------------------------------
(* mergeConfig on its own: the host holds configuration trees and merges them, *)
(* the results of earlier merges included                                     *)

\* the trees the host starts with: a base with a nested object, a list and a
\* scalar; overrides that change a nested key, put a scalar in place of an
\* object, are empty, bring another list, put an object in place of a scalar
MergeTrees ==
  << Obj([key \in {"a", "p", "t"} |->
        CASE key = "a" -> Obj([name \in {"x", "y"} |-> IF name = "x" THEN Num(1) ELSE Num(2)])
          [] key = "p" -> Arr(<<Str(<<"c">>)>>)
          [] OTHER -> Num(5)]),
     Obj([key \in {"a"} |-> Obj([name \in {"x"} |-> Num(9)])]),
     Obj([key \in {"a"} |-> Num(5)]),
     Obj(<<>>),
     Obj([key \in {"p"} |-> Arr(<<Str(<<"d">>), Str(<<"e">>)>>)]),
     Obj([key \in {"t"} |-> Obj([name \in {"x"} |-> Num(1)])]) >>

RECURSIVE StoreAll(_, _)
\* the heap that holds the first n of these trees
StoreAll(trees, n) ==
  IF n = 0 THEN <<>> ELSE Store(StoreAll(trees, n - 1), trees[n]).heap

\* the objects nothing refers to: the trees the host holds
Roots(h) ==
  {a \in 1..Len(h) :
     \A c \in 1..Len(h) : \A key \in DOMAIN h[c].f : h[c].f[key] # Ref(a)}

\* the host calls HairqareTimer.mergeConfig(base, override) on two of its trees
MergeCall(b, o) ==
  /\ LET out == mergeConfigAt(heap, b, o)
     IN /\ heap' = out.heap
        /\ returned' = Ref(out.ref)
  /\ args' = <<Ref(b), Ref(o)>>
  /\ calls' = [calls EXCEPT !.direct = @ + 1]
  /\ lastCall' = [op |-> "merge", arg |-> "returned"]
  /\ UNCHANGED <<config, minutes, seconds, countryCode, promoText, timerInterval,
                 isInitialized, promoData, lastFetched, now, store, storeThrows,
                 href, bodyReady, display, procs, intervals, timeouts, nextId,
                 expiredFor, sinceTick>>

MergeInit ==
  /\ Constructed
  /\ now = 1
  /\ store = <<>>
  /\ storeThrows = FALSE
  /\ href = <<"/">>
  /\ bodyReady = TRUE
  /\ heap = StoreAll(MergeTrees, Len(MergeTrees))
  /\ args = <<>>
  /\ returned = Null

MergeNext ==
  \E b \in Roots(heap), o \in Roots(heap) :
    calls.direct < MaxMerges /\ MergeCall(b, o)

MergeSpec == MergeInit /\ [][MergeNext]_vars

-----------------------------------------------------------------------------
(* getPromoText on its own: the host calls it with a country, a date and rows *)

\* the rows a caller passes: the fallback rows; no rows; a header alone; two
\* rows of one country with different dates; rows without a header; rows whose
\* first row has the country of a later one; a row with a country and no text
SelectRows ==
  { Null,
    Rows(getFallbackPromoData),
    Rows(<<>>),
    Rows(<<<<<<"C", "o", "u", "n", "t", "r", "y">>, <<"P", "r", "o", "m", "o", "T", "e", "x", "t">>, <<"S", "t", "a", "r", "t", "D", "a", "t", "e">>, <<"E", "n", "d", "D", "a", "t", "e">>>>>>),
    Rows(<<<<<<"C", "o", "u", "n", "t", "r", "y">>, <<"P", "r", "o", "m", "o", "T", "e", "x", "t">>, <<"S", "t", "a", "r", "t", "D", "a", "t", "e">>, <<"E", "n", "d", "D", "a", "t", "e">>>>, <<<<"U", "S">>, <<"E", "a", "r", "l", "y">>, <<"2", "0", "2", "5", "-", "0", "7", "-", "0", "4">>, <<"2", "0", "2", "5", "-", "0", "7", "-", "0", "4">>>>, <<<<"U", "S">>, <<"L", "a", "t", "e">>, <<"2", "0", "2", "6", "-", "0", "1", "-", "0", "1">>, <<"2", "0", "2", "6", "-", "1", "2", "-", "3", "1">>>>>>),
    Rows(<<<<<<"U", "S">>, <<"F", "i", "r", "s", "t">>, <<"2", "0", "2", "5", "-", "0", "1", "-", "0", "1">>, <<"2", "0", "2", "5", "-", "1", "2", "-", "3", "1">>>>, <<<<"D", "E">>, <<"S", "e", "c", "o", "n", "d">>, <<"2", "0", "2", "5", "-", "0", "1", "-", "0", "1">>, <<"2", "0", "2", "5", "-", "1", "2", "-", "3", "1">>>>>>),
    Rows(<<<<<<"U", "S">>, <<"F", "i", "r", "s", "t">>, <<"2", "0", "2", "5", "-", "0", "1", "-", "0", "1">>, <<"2", "0", "2", "5", "-", "1", "2", "-", "3", "1">>>>, <<<<"D", "E">>, <<"E", "i", "n", "h", "e", "i", "t">>, <<"b", "a", "d">>, <<>>>>, <<<<"U", "S">>, <<"T", "h", "i", "r", "d">>, <<"2", "0", "2", "5", "-", "0", "1", "-", "0", "1">>, <<"2", "0", "2", "5", "-", "1", "2", "-", "3", "1">>>>>>),
    Rows(<<<<<<"C", "o", "u", "n", "t", "r", "y">>, <<"P", "r", "o", "m", "o", "T", "e", "x", "t">>, <<"S", "t", "a", "r", "t", "D", "a", "t", "e">>, <<"E", "n", "d", "D", "a", "t", "e">>>>, <<<<"D", "E">>>>, <<<<>>, <<"B", "l", "a", "n", "k">>>>>>) }

SelectCountries == {<<"U", "S">>, <<"D", "E">>, <<"Z", "Z">>, <<"C", "o", "u", "n", "t", "r", "y">>}

\* currentDate, in days since 1970-01-01: 2025-07-04, 2025-10-03, 2027-01-01
SelectDates == {20273, 20364, 20819}

\* the host calls HairqareTimer.getPromoText(countryCode, currentDate, promoData)
SelectCall(code, currentDate, data) ==
  /\ args' = <<Str(code), Num(currentDate), data>>
  /\ returned' = getPromoText(Str(code), currentDate, data, config)
  /\ calls' = [calls EXCEPT !.direct = @ + 1]
  /\ lastCall' = [op |-> "getPromoText", arg |-> "returned"]
  /\ UNCHANGED <<config, minutes, seconds, countryCode, promoText, timerInterval,
                 isInitialized, promoData, lastFetched, now, store, storeThrows,
                 href, bodyReady, display, procs, intervals, timeouts, nextId,
                 expiredFor, sinceTick, heap>>

\* the configuration is the default one, or one whose defaultText init merged
SelectInit ==
  /\ Constructed
  /\ NoDirectCall
  /\ now = 1
  /\ store = <<>>
  /\ storeThrows = FALSE
  /\ href = <<"/">>
  /\ bodyReady = TRUE

SetDefaultText ==
  /\ calls.direct = 0
  /\ Get(config, "defaultText") = Str(DefaultText)
  /\ config' = mergeConfig(config, Obj([key \in {"defaultText"} |-> Str(<<"S", "a", "l", "e">>)]))
  /\ lastCall' = [op |-> "configure", arg |-> "defaultText"]
  /\ UNCHANGED <<minutes, seconds, countryCode, promoText, timerInterval,
                 isInitialized, promoData, lastFetched, now, store, storeThrows,
                 href, bodyReady, display, procs, intervals, timeouts, nextId,
                 calls, expiredFor, sinceTick, directVars>>

SelectNext ==
  \/ SetDefaultText
  \/ \E code \in SelectCountries, currentDate \in SelectDates, data \in SelectRows :
       calls.direct < MaxSelects /\ SelectCall(code, currentDate, data)

SelectSpec == SelectInit /\ [][SelectNext]_vars

-----------------------------------------------------------------------------
(* parseCSV on its own: the host calls it once with a text *)

CsvAlphabet == {"a", ",", "\"", "\n", " "}

\* the texts a caller passes: every text of up to MaxText characters of the
\* alphabet, a row of four fields, a quoted field with a comma followed by
\* empty lines, and lines that end in carriage return and line feed
ParseTexts ==
  UNION {[1..n -> CsvAlphabet] : n \in 0..MaxText}
  \cup { <<"U", "S", ",", "4", "t", "h", " ", "o", "f", " ", "J", "u", "l", "y", ",", "2", "0", "2", "5", "-", "0", "7", "-", "0", "4", ",", "2", "0", "2", "5", "-", "0", "7", "-", "0", "4", "\n">>,
         <<"D", "E", ",", " ", "\"", "S", "a", "l", "e", ",", " ", "B", "i", "g", "!", "\"", " ", ",", "x", "\n", "\n", " ", "\n">>,
         <<"C", ",", "T", "\r", "\n", "U", "S", ",", "a", "\r", "\n", "\r", "\n">> }

\* the host calls HairqareTimer.parseCSV(text)
ParseCall(text) ==
  /\ args' = <<Str(text)>>
  /\ returned' = Rows(parseCSV(text))
  /\ calls' = [calls EXCEPT !.direct = @ + 1]
  /\ lastCall' = [op |-> "parseCSV", arg |-> "returned"]
  /\ UNCHANGED <<config, minutes, seconds, countryCode, promoText, timerInterval,
                 isInitialized, promoData, lastFetched, now, store, storeThrows,
                 href, bodyReady, display, procs, intervals, timeouts, nextId,
                 expiredFor, sinceTick, heap>>

ParseInit ==
  /\ Constructed
  /\ NoDirectCall
  /\ now = 1
  /\ store = <<>>
  /\ storeThrows = FALSE
  /\ href = <<"/">>
  /\ bodyReady = TRUE

ParseNext == \E text \in ParseTexts : calls.direct = 0 /\ ParseCall(text)

ParseSpec == ParseInit /\ [][ParseNext]_vars

-----------------------------------------------------------------------------
(* The timer on its own: the state init leaves behind (lines 62, 71-72, and   *)
(* the remote merge of loadConfigFromUrl), then startTimer calls and timers   *)

TimerInit ==
  /\ \E m \in 0..MaxMinutes, sec \in 0..MaxSeconds, r \in 0..MaxRestart :
       \E remote \in {Obj(<<>>), RemoteTimerDoc} :
         LET merged == mergeConfig(DefaultConfig, TimerSettingsConfig(m, sec, r))
         IN /\ minutes = TimerSetting(merged, "initialMinutes")
            /\ seconds = TimerSetting(merged, "initialSeconds")
            /\ config = mergeConfig(merged, remote)
  /\ countryCode = Str(<<"U", "S">>)
  /\ promoText = Str(DefaultText)
  /\ timerInterval = 0
  /\ isInitialized = TRUE
  /\ promoData = Null
  /\ lastFetched = 0
  /\ now = 1
  /\ store = <<>>
  /\ storeThrows = FALSE
  /\ href = <<"/">>
  /\ bodyReady = TRUE
  /\ display = Null
  /\ procs = <<>>
  /\ intervals = {}
  /\ timeouts = <<>>
  /\ nextId = 1
  /\ calls = NoCalls
  /\ lastCall = [op |-> "none", arg |-> "none"]
  /\ expiredFor = -1
  /\ sinceTick = -1
  /\ NoDirectCall

\* startTimer is called once, as the init pipeline does; then the timers run
TimerNext ==
  \/ \E hasTarget \in BOOLEAN : calls.start = 0 /\ StartTimerCall(hasTarget)
  \/ Tick
  \/ RestartFire
  \/ TimerElapse

TimerSpec == TimerInit /\ [][TimerNext]_vars

\* the host calls startTimer at any moment, with or without a display target,
\* over a bounded number of steps of time (to the next timer, or half a period)
StartNext ==
  \/ \E hasTarget \in BOOLEAN : calls.start < MaxStarts /\ StartTimerCall(hasTarget)
  \/ Tick
  \/ RestartFire
  \/ \E d \in {TickPeriod, TickPeriod \div 2} : calls.elapse < MaxElapse /\ Elapse(d)

StartSpec == TimerInit /\ [][StartNext]_vars

\* the browser fires every timer that is due, and time passes
TimerFairSpec ==
  /\ TimerInit
  /\ [][TimerNext]_vars
  /\ WF_vars(Tick)
  /\ WF_vars(RestartFire)
  /\ WF_vars(TimerElapse)

-----------------------------------------------------------------------------
(* Properties *)

Expired == lastCall = [op |-> "tick", arg |-> "expired"]
Reset == lastCall = [op |-> "restart", arg |-> "reset"]

\* C5: with initialMinutes >= 0 and initialSeconds in 0..59, minutes stays >= 0
\* and seconds stays in 0..59 through every tick, expiration and restart; and a
\* tick takes (m, s) to (m, s - 1) when s > 0, to (m - 1, 59) when s = 0 and
\* m > 0, and leaves (0, 0) at (0, 0).
C5_TickKeepsRange ==
  /\ [](minutes >= 0 /\ seconds \in 0..59)
  /\ [][lastCall'.op = "tick" =>
          /\ seconds > 0 => (minutes' = minutes /\ seconds' = seconds - 1)
          /\ (seconds = 0 /\ minutes > 0) => (minutes' = minutes - 1 /\ seconds' = 59)
          /\ (seconds = 0 /\ minutes = 0) => (minutes' = 0 /\ seconds' = 0)]_vars

\* C5 witness: a tick has just rolled (1, 0) over to (0, 59).
C5_RolledOver == lastCall.op = "tick" /\ minutes = 0 /\ seconds = 59

\* the configured countdown is longer than zero
CountsDown ==
  TimerSetting(config, "initialMinutes") > 0 \/ TimerSetting(config, "initialSeconds") > 0

\* C6 (as claimed): once the countdown has expired, the state is not reset
\* before the restart delay has elapsed since that expiration (stated for the
\* configurations whose countdown is longer than zero).
C6_NoResetBeforeDelay ==
  [][(lastCall'.op = "restart" /\ expiredFor >= 0 /\ CountsDown) =>
        expiredFor >= RestartDelay(config)]_vars

\* C8: at most one periodic tick is active after any sequence of startTimer
\* calls, it is the one state.timerInterval names, and no decrement follows
\* another within less than one tick period.
C8_SingleTick ==
  /\ [](Cardinality(intervals) <= 1 /\ \A iv \in intervals : iv.id = timerInterval)
  /\ [][lastCall'.op = "tick" => sinceTick \in {-1, TickPeriod}]_vars

\* C8 witness: the tick installed by a second startTimer call has fired.
C8_SecondTickFired == lastCall.op = "tick" /\ calls.start >= 2 /\ timerInterval = 2

\* C7: once the tick is running, the countdown expires, every expiration is
\* followed by a reset, and every reset by a further expiration.
C7_CyclesForever ==
  /\ (intervals # {}) ~> Expired
  /\ Expired ~> Reset
  /\ Reset ~> Expired

\* C7 witness: a reset has happened after an expiration and the tick is running.
C7_Restarted == Reset /\ intervals # {}

\* the init pipelines that have been started
Pipelines == {i \in 1..Len(procs) : procs[i].kind = "init"}

\* C1 (as claimed): two or more calls of init produce exactly one pipeline
\* (country resolution, data fetch, timer start), and a call after the first
\* changes nothing.
C1_ExactlyOnePipeline ==
  /\ [](calls.init >= 2 => Cardinality(Pipelines) = 1)
  /\ [][(lastCall'.op = "init" /\ calls.init >= 1) =>
          (config' = config /\ procs' = procs /\ minutes' = minutes
           /\ seconds' = seconds)]_vars

\* C2: in every init pipeline the country is stored before the promo data is
\* asked for, the promo data has arrived before the promo text is selected, and
\* the text is selected before the timer starts: no tick is installed while
\* countryCode or promoText is still null.
C2_StagesInOrder ==
  /\ \A i \in Pipelines :
       procs[i].pc \in {"fetching", "data", "done"} => countryCode # Null
  /\ \A i \in Pipelines :
       procs[i].pc = "done" => (procs[i].data # Null /\ promoText # Null)
  /\ promoText # Null =>
       \E i \in Pipelines : procs[i].pc = "done" /\ procs[i].data # Null
  /\ timerInterval # 0 => (countryCode # Null /\ promoText # Null)

\* C2 witness: a pipeline that fetched its promo data from the network has
\* selected the text and started the timer.
C2_PipelineStartedTimer ==
  /\ lastCall = [op |-> "select", arg |-> "started"]
  /\ timerInterval # 0
  /\ \E i \in Pipelines : procs[i].pc = "done" /\ procs[i].via = "network"

\* the cache holds the rows of a successful fetch
Populated == Truthy(promoData) /\ lastFetched # 0

\* the data source URL is configured
HasDataUrl ==
  Truthy(Get(config, "dataSource")) /\ Truthy(Get(Get(config, "dataSource"), "url"))

\* C3: with the cache populated at lastFetched, a fetchPromoData call made less
\* than 3,600,000 ms later resolves with the cached rows and starts no fetch,
\* and a call made 3,600,000 ms later or more starts a new fetch when the data
\* source URL is configured.
C3_FreshForOneHour ==
  [][(lastCall'.op = "getData" /\ Populated) =>
       LET chain == procs'[Len(procs')]
       IN /\ Len(procs') = Len(procs) + 1
          /\ (now - lastFetched < 3600000) =>
               (chain.pc = "data" /\ chain.via = "cache" /\ chain.data = promoData)
          /\ (now - lastFetched >= 3600000 /\ HasDataUrl) =>
               (chain.pc = "fetching" /\ chain.data = Null)]_vars

\* C3 witness: one call was served from the cache, and a call made exactly
\* 3,600,000 ms after the fetch has started a new fetch.
C3_ServedThenRefetched ==
  /\ Populated
  /\ now - lastFetched = 3600000
  /\ lastCall = [op |-> "getData", arg |-> "none"]
  /\ \E i \in 1..Len(procs) : procs[i].via = "cache"
  /\ procs[Len(procs)].pc = "fetching"

\* C4: a fetch that ends in a non-success response or a transport failure, and
\* a call without a data source URL, resolve with the fallback rows and leave
\* promoData and lastFetched as they were, so that what the next call does
\* is to fetch again when a URL is configured and the cache is not fresh.
C4_FailureLeavesCache ==
  [][((lastCall'.op = "fetched" /\ lastCall'.arg \in {"transport", "status"})
      \/ (lastCall'.op = "getData" /\ ~HasDataUrl)) =>
       /\ promoData' = promoData
       /\ lastFetched' = lastFetched
       /\ \E i \in 1..Len(procs') :
            /\ i > Len(procs) \/ procs[i].pc = "fetching"
            /\ procs'[i].pc = "data"
            /\ procs'[i].data = Rows(getFallbackPromoData)
       /\ (HasDataUrl /\ ~(Populated /\ now - lastFetched < 3600000)) =>
            FetchDecision(config', promoData', lastFetched', now') = "network"]_vars

\* C4 witness: a fetch has failed while the cache held rows older than the
\* freshness window; the rows and their time are still there.
C4_FailedOverStaleCache ==
  /\ lastCall = [op |-> "fetched", arg |-> "transport"]
  /\ Populated
  /\ now - lastFetched >= FreshFor
  /\ \E i \in 1..Len(procs) : procs[i].via = "fallback"

\* C9 (as claimed): when a pipeline starts the timer, minutes and seconds are
\* the initialMinutes and initialSeconds of the configuration as merged by
\* then, the values a restart resets to.
C9_StartsFromMergedSettings ==
  [][lastCall' = [op |-> "select", arg |-> "started"] =>
       /\ minutes' = TimerSetting(config', "initialMinutes")
       /\ seconds' = TimerSetting(config', "initialSeconds")]_vars

\* the value the last getCountry call resolved with
Resolved == procs[Len(procs)].country

\* no entry of sessionStorage mentions billing_country
NoSignal == \A i \in 1..Len(store) : ~Includes(store[i].value, BillingCountry)

\* C10: whatever sessionStorage holds, and when reading it throws, getCountry
\* resolves with a string of two upper-case letters, and with "US" when no
\* entry mentions billing_country or storage cannot be read.
C10_AlwaysTwoLetters ==
  lastCall.op = "getCountry" =>
    /\ procs[Len(procs)].pc = "done"
    /\ Resolved.k = "str"
    /\ Resolved.s \in TwoLetterCodes
    /\ (NoSignal \/ storeThrows) => Resolved = Str(<<"U", "S">>)

\* C10 witness: the checkout entry holds a three-letter code behind the marker
\* and another entry a marker that is no JSON; getCountry has resolved with "US".
C10_MalformedResolved ==
  /\ lastCall.op = "getCountry"
  /\ ~storeThrows
  /\ GetItem(store, CheckoutKey) = Str(<<"{", "\"", "b", "i", "l", "l", "i", "n", "g", "_", "c", "o", "u", "n", "t", "r", "y", "\"", ":", "\"", "D", "E", "U", "\"", "}">>)
  /\ \E i \in 1..Len(store) : store[i].value = <<"b", "i", "l", "l", "i", "n", "g", "_", "c", "o", "u", "n", "t", "r", "y", "=", "F", "R">>
  /\ Resolved = Str(<<"U", "S">>)

\* the payload stored under the well-known key (null when the key is absent)
CheckoutFields == GetItem(store, CheckoutKey)

\* whether the member "billing_country" with a two-letter value stands at
\* position i of s, with white space wherever JSON allows it
MemberAt(s, i) ==
  /\ OccursAt(s, <<"\"">> \o BillingCountry \o <<"\"">>, i)
  /\ LET colon == SkipWs(s, i + Len(BillingCountry) + 2)
         quote == SkipWs(s, colon + 1)
     IN /\ At(s, colon) = ":"
        /\ At(s, quote) = "\""
        /\ At(s, quote + 1) \in UpperCase
        /\ At(s, quote + 2) \in UpperCase
        /\ At(s, quote + 3) = "\""

\* the two-letter billing_country of a payload that parses as JSON, null when
\* the payload does not parse or has none
PayloadCountry(s) ==
  LET hits == {i \in 1..Len(s) : MemberAt(s, i)}
  IN IF ~JsonParses(s) \/ hits = {} THEN Null
     ELSE LET i == CHOOSE i \in hits : \A j \in hits : i <= j
              quote == SkipWs(s, SkipWs(s, i + Len(BillingCountry) + 2) + 1)
          IN Str(<<s[quote + 1], s[quote + 2]>>)

\* every other entry that mentions billing_country comes after the well-known
\* key in iteration order
OthersLater ==
  \A i, j \in 1..Len(store) :
    (store[i].key = CheckoutKey /\ store[j].key # CheckoutKey
     /\ Includes(store[j].value, BillingCountry)) => i < j

\* C11 (as claimed): when the well-known key holds a payload that parses and
\* whose billing_country is the two-letter code C, getCountry resolves with C,
\* whatever the entries after it hold.
C11_CheckoutPayloadWins ==
  (/\ lastCall.op = "getCountry"
   /\ ~storeThrows
   /\ Truthy(CheckoutFields)
   /\ Truthy(PayloadCountry(CheckoutFields.s))
   /\ OthersLater)
  => Resolved = PayloadCountry(CheckoutFields.s)

\* C20 (as claimed): when the well-known key holds a payload that does not
\* parse as JSON and whose text matches the billing_country pattern with code
\* C, getCountry resolves with C, whatever the other entries hold and wherever
\* they are.
C20_PatternOnCheckoutPayload ==
  (/\ lastCall.op = "getCountry"
   /\ ~storeThrows
   /\ Truthy(CheckoutFields)
   /\ ~JsonParses(CheckoutFields.s)
   /\ Truthy(BillingMatch(CheckoutFields.s)))
  => Resolved = BillingMatch(CheckoutFields.s)

RECURSIVE ReferenceMerge(_, _)
\* the deep merge the configuration contract describes: every key of override
\* holds the merge of both sides when both are composite and override's value
\* otherwise, every other key keeps base's value; lists merge into lists
ReferenceMerge(base, override) ==
  LET b == Props(base)
      o == Props(override)
      merged == [key \in DOMAIN b \cup DOMAIN o |->
                   IF key \in DOMAIN o
                   THEN IF key \in DOMAIN b /\ IsComposite(b[key]) /\ IsComposite(o[key])
                        THEN ReferenceMerge(b[key], o[key])
                        ELSE o[key]
                   ELSE b[key]]
  IN IF base.k = "arr" /\ override.k = "arr"
     THEN Arr([i \in 1..Cardinality(DOMAIN merged) |-> merged[IndexKey(i - 1)]])
     ELSE Obj(merged)

\* the direct call of mergeConfig agrees with mergeConfig on values
MergeAgrees ==
  lastCall.op = "merge" =>
    Deref(heap, returned) = mergeConfig(Deref(heap, args[1]), Deref(heap, args[2]))

\* C12 (as claimed): what mergeConfig(base, override) returns is the reference
\* deep merge of the two trees, and base itself when override is empty.
C12_EqualsReferenceMerge ==
  lastCall.op = "merge" =>
    /\ Deref(heap, returned) = ReferenceMerge(Deref(heap, args[1]), Deref(heap, args[2]))
    /\ Deref(heap, args[2]) = Obj(<<>>) => Deref(heap, returned) = Deref(heap, args[1])

\* C13: a call of mergeConfig leaves every object that existed before it as it
\* was, at every depth (the trees passed as base and override among them, in
\* this call and in every later one), and returns an object that is new.
C13_InputsUntouched ==
  [][lastCall'.op = "merge" =>
       /\ \A a \in 1..Len(heap) : heap'[a] = heap[a]
       /\ returned'.a > Len(heap)]_vars

\* C13 witness: a tree returned by an earlier merge, which shares subtrees
\* with its inputs, has been merged with an override that reaches into them.
C13_MergedAResult ==
  /\ lastCall.op = "merge"
  /\ calls.direct >= 2
  /\ args[1].a > Len(StoreAll(MergeTrees, Len(MergeTrees)))
  /\ \E key \in DOMAIN heap[args[1].a].f :
       /\ IsRef(heap[args[1].a].f[key])
       /\ key \in DOMAIN heap[args[2].a].f
       /\ IsRef(heap[args[2].a].f[key])

\* the rows of the last getPromoText call whose country field is the country
\* asked for, the first row aside
SelectMatches ==
  IF ~Truthy(args[3]) THEN {}
  ELSE {i \in 2..Len(args[3].r) : Field(args[3].r[i], 0) = args[1]}

\* C14: getPromoText returns the text field of the first row after the header
\* whose country field is countryCode, and the configured default text when
\* there are no rows, a header alone or no such row; the first row is never
\* selected, and currentDate and the rows' dates play no part.
C14_FirstMatchOrDefault ==
  lastCall.op = "getPromoText" =>
    /\ SelectMatches = {} => returned = Get(config, "defaultText")
    /\ SelectMatches # {} =>
         returned = Field(args[3].r[CHOOSE i \in SelectMatches :
                                      \A j \in SelectMatches : i <= j], 1)
    /\ \A currentDate \in SelectDates :
         getPromoText(args[1], currentDate, args[3], config) = returned

\* C14 witness: the rows hold the country asked for in the first row only, and
\* the call has returned the default text.
C14_FirstRowPassedOver ==
  /\ lastCall.op = "getPromoText"
  /\ Truthy(args[3])
  /\ Len(args[3].r) > 1
  /\ Field(args[3].r[1], 0) = args[1]
  /\ SelectMatches = {}
  /\ returned = Get(config, "defaultText")

\* where the lines of a text start, and the line that starts at position p
LineStarts(text) == {1} \cup {i + 1 : i \in {j \in 1..Len(text) : text[j] = "\n"}}
LineFrom(text, p) ==
  LET stop == CHOOSE i \in p..(Len(text) + 1) :
                /\ i = Len(text) + 1 \/ text[i] = "\n"
                /\ \A j \in p..(i - 1) : text[j] # "\n"
  IN Sub(text, p, stop - p)

\* the commas of a line that have an even number of quotes before them
UnquotedCommas(line) ==
  {i \in 1..Len(line) :
     line[i] = "," /\ Cardinality({j \in 1..(i - 1) : line[j] = "\""}) % 2 = 0}

\* the n-th smallest element of a set of numbers
Nth(set, n) == CHOOSE x \in set : Cardinality({y \in set : y < x}) = n - 1

\* field n of a line: what stands between unquoted commas n - 1 and n, without
\* the quotes and without the white space around it
FieldOf(line, n) ==
  LET cuts == UnquotedCommas(line)
      from == IF n = 1 THEN 1 ELSE Nth(cuts, n - 1) + 1
      to == IF n = Cardinality(cuts) + 1 THEN Len(line) ELSE Nth(cuts, n) - 1
  IN Trim(SelectSeq(Sub(line, from, to - from + 1), LAMBDA c : c # "\""))

\* the rows the parsing contract describes for a text: for every line whose
\* first field is not empty, in order, its fields
ExpectedRows(text) ==
  LET starts == LineStarts(text)
      all == [n \in 1..Cardinality(starts) |->
                LET line == LineFrom(text, Nth(starts, n))
                IN [f \in 1..(Cardinality(UnquotedCommas(line)) + 1) |-> FieldOf(line, f)]]
  IN SelectSeq(all, LAMBDA row : row[1] # <<>>)

\* C15: parseCSV returns, for every line whose first field is not empty and in
\* the order of the lines, one row with one field more than the line has commas
\* outside quotes; a field is what stands between two such commas, quotes
\* removed and trimmed; no row has an empty first field.
C15_FieldsAtUnquotedCommas ==
  lastCall.op = "parseCSV" =>
    /\ returned.r = ExpectedRows(args[1].s)
    /\ \A n \in 1..Len(returned.r) :
         /\ returned.r[n][1] # <<>>
         /\ \A f \in 1..Len(returned.r[n]) :
              LET field == returned.r[n][f]
              IN field = <<>> \/ (field[1] \notin WhiteSpace /\ field[Len(field)] \notin WhiteSpace)

\* C15 witness: a text with a quoted field that holds a comma, followed by
\* empty lines, has been parsed into one row of three fields.
C15_QuotedCommaKept ==
  /\ lastCall.op = "parseCSV"
  /\ args[1].s = <<"D", "E", ",", " ", "\"", "S", "a", "l", "e", ",", " ", "B", "i", "g", "!", "\"", " ", ",", "x", "\n", "\n", " ", "\n">>
  /\ returned.r = <<<<<<"D", "E">>, <<"S", "a", "l", "e", ",", " ", "B", "i", "g", "!">>, <<"x">>>>>>

\* the remote configuration could not be loaded in the last step
LoadFailed(call) == call.op = "config" /\ call.arg \in {"transport", "status", "syntax"}

\* C16: when the fetch of the remote configuration fails (transport failure,
\* non-success status or a body that is not JSON), the configuration stays
\* the merge of the defaults with what the caller passed, the failure is
\* handled, and the one pipeline goes on with country resolution.
C16_FailedLoadKeepsConfig ==
  [][LoadFailed(lastCall') =>
       /\ config' = config
       /\ \E userConfig \in UserConfigs \ {Undefined} :
            /\ Truthy(Get(userConfig, "configUrl"))
            /\ config' = mergeConfig(DefaultConfig, userConfig)
       /\ Cardinality({i \in 1..Len(procs') : procs'[i].kind = "init"}) = 1
       /\ \E i \in 1..Len(procs) :
            /\ procs[i].pc = "loadConfig"
            /\ procs'[i].pc = "country"
            /\ \A j \in 1..Len(procs) : j # i => procs'[j] = procs[j]]_vars

\* C16 witness: the body of the remote configuration was not JSON, and the
\* pipeline goes on with the caller's timer settings and data source.
C16_WentOnAfterFailedLoad ==
  /\ lastCall = [op |-> "config", arg |-> "syntax"]
  /\ config = mergeConfig(DefaultConfig, UserConfig(TRUE, TRUE, "none", TRUE))
  /\ \E i \in Pipelines : procs[i].pc = "country"

\* C17 (as claimed): at most one restart timeout is pending at any time, and
\* the state is reset only after an expiration that no reset has answered yet
\* (never while the restarted countdown is running).
C17_OneRestartPerExpiration ==
  /\ [](Len(timeouts) <= 1)
  /\ [][lastCall'.op = "restart" => expiredFor >= 0]_vars

\* C18 (as claimed, for a call made while a countdown is in progress, right
\* after one of its ticks): right after startTimer, minutes and seconds are the
\* configured initialMinutes and initialSeconds, and that is what the display
\* shows first.
C18_StartSetsState ==
  [][(lastCall'.op = "start" /\ calls.start >= 1 /\ lastCall.op = "tick") =>
       /\ minutes' = TimerSetting(config', "initialMinutes")
       /\ seconds' = TimerSetting(config', "initialSeconds")
       /\ lastCall'.arg = "target" =>
            display' = TimerText(TimerSetting(config', "initialMinutes"),
                                 TimerSetting(config', "initialSeconds"))]_vars

\* C19 (as claimed): a startTimer call that finds no display target leaves a
\* periodic tick running when one was running before it.
C19_NoTargetKeepsTicking ==
  [][(lastCall' = [op |-> "start", arg |-> "none"] /\ intervals # {}) =>
       intervals' # {}]_vars

\* the caller's configuration names a non-empty list of URL patterns
SuppliesPatterns(userConfig) ==
  /\ Truthy(userConfig)
  /\ "urlPatterns" \in DOMAIN Props(userConfig)
  /\ Get(userConfig, "urlPatterns").k = "arr"
  /\ Get(userConfig, "urlPatterns").a # <<>>

\* C21 (as claimed): when init is given a configuration whose urlPatterns is a
\* non-empty list of substrings, the merged configuration holds that same list,
\* and init raises no error: it starts the pipeline when the address of the
\* page contains one of the patterns and starts nothing otherwise.
C21_PatternsKeptNoError ==
  [][\A userConfig \in UserConfigs :
       (/\ SuppliesPatterns(userConfig)
        /\ lastCall'.op = "init"
        /\ ~isInitialized
        /\ config' = mergeConfig(config, userConfig)) =>
         LET patterns == Get(userConfig, "urlPatterns")
             contained == \E i \in 1..Len(patterns.a) : Includes(href, patterns.a[i].s)
         IN /\ Get(config', "urlPatterns") = patterns
            /\ lastCall'.arg # "threw"
            /\ lastCall'.arg = "started" <=> contained
            /\ Len(procs') = Len(procs) + (IF contained THEN 1 ELSE 0)]_vars

=============================================================================
